---- MODULE Spec2Model ----
(***************************************************************************)
(* Model of libavformat/llhlsunix.c: the "llhls:" Unix-socket protocol.    *)
(* The file holds three snapshots of the module; the model covers the      *)
(* sentinel-aware client (lines 334-547) and the open/close of the         *)
(* listen-capable snapshot (lines 169-332).                                *)
(*                                                                         *)
(* C strings are sequences of one-character strings without their         *)
(* terminator; a zero byte of a buffer is NUL.  Pointers into a string are *)
(* 0-based offsets, the null pointer is NULL.                              *)
(***************************************************************************)
EXTENDS Integers, Sequences, FiniteSets, TLC

---------------------------------------------------------------------------
(* Sizes of the model.  Cap stands for sizeof(chunkLastbytes) (1024 in the *)
(* source) and Magic for the 56-character kLLHLS_UNIX_MAGIC_ERROR: both    *)
(* are scaled down together, keeping Len(Magic) <= Cap.                    *)

Cap == 4


MaxStream == 6

MaxReads == 4

MaxTail == 6

MaxWrite == 2

MaxWire == 3

NUL == "\\0"

NULL == -1

Magic == <<"<", "!", ">">>

Bytes == {"<", "!", ">"}

Scheme == <<"l", "l", "h", "l", "s", ":">>

(* size_t arithmetic: a negative difference wraps to a value larger than   *)
(* every length of the model (2^64 in the source; TLC integers have 32     *)
(* bits, so the modulus is 2^30).                                          *)
SizeModulus == 2 ^ 30

SizeT(x) == x % SizeModulus

(* Return codes.  AVERROR(e) is -e; the errno values are those of the      *)
(* platform whose ECONNREFUSED is the 61 tested by open.                   *)
AVERROR_EOF == -541478725

AVERROR_INVALIDDATA == -1094995529

AVERROR_EAGAIN == -35

AVERROR_ECONNRESET == -54

AVERROR_ECONNREFUSED == -61

AVERROR_ENOENT == -2

AVERROR_EMFILE == -24

AVERROR_EADDRINUSE == -48

AVERROR_EACCES == -13

AVERROR_ETIMEDOUT == -60

AVERROR_EPIPE == -32

BackoffUsec == 300

PathCopyMax == 90

SunPathSize == 104

NewFd == 3

AcceptedFd == 4

---------------------------------------------------------------------------
(* String and buffer primitives.                                           *)

Min(a, b) == IF a < b THEN a ELSE b

Max(a, b) == IF a > b THEN a ELSE b

FFMIN(a, b) == IF a > b THEN b ELSE a

Zeros(n) == [i \in 1..n |-> NUL]

(* s + k for a pointer s into a string of at least k characters *)
Advance(s, k) == SubSeq(s, k + 1, Len(s))

Take(s, k) == SubSeq(s, 1, Min(k, Len(s)))

IsPrefix(p, s) == Len(p) <= Len(s) /\ SubSeq(s, 1, Len(p)) = p

(* av_strstart(str, pfx, &ptr): ptr is moved past pfx when str starts with it *)
av_strstart(str, pfx) == IF IsPrefix(pfx, str) THEN Advance(str, Len(pfx)) ELSE str

(* av_strnstr(haystack, needle, strlen(haystack)) for a one-character needle *)
av_strnstr(haystack, c) ==
  LET hits == {i \in 1..Len(haystack) : haystack[i] = c}
  IN  IF hits = {} THEN NULL
      ELSE (CHOOSE i \in hits : \A j \in hits : i <= j) - 1

(* av_strlcpy(dst, src, size) into a zeroed dst: at most size-1 characters *)
(* are copied; with size = 0 nothing is written and dst stays empty.       *)
av_strlcpy(src, size) == IF size = 0 THEN <<>> ELSE Take(src, size - 1)

(* strncpy(dst, src, n) into a zeroed dst *)
strncpy(src, n) == Take(src, n)

(* memcpy(dst, src, len): bytes 0..len-1 of dst are overwritten; a copy    *)
(* longer than dst runs past its end.                                      *)
memcpy_Clear(dst, src, len) ==
  [i \in 1..Max(Len(dst), len) |-> IF i <= len THEN src[i] ELSE NUL]

memcpy(dst, src, len) ==
  [i \in 1..Max(Len(dst), len) |-> IF i <= len THEN src[i] ELSE dst[i]]

findBufStr_ShortEnd(str, substr, n) ==
  LET hits == {p \in 0..(n - Len(substr) - 1) :
                 \A k \in 1..Len(substr) : str[p + k] = substr[k]}
  IN  IF Len(substr) = 0 THEN 0
      ELSE IF hits = {} THEN NULL
      ELSE CHOOSE p \in hits : \A q \in hits : p <= q

(* findBufStr(str, substr, n): offset of the first occurrence, or NULL *)
findBufStr(str, substr, n) ==
  LET substr_len == Len(substr)
      pEnd == n - (substr_len - 1)
      hits == {p \in 0..(pEnd - 1) :
                 \A k \in 1..substr_len : str[p + k] = substr[k]}
  IN  IF substr_len = 0 THEN 0
      ELSE IF hits = {} THEN NULL
      ELSE CHOOSE p \in hits : \A q \in hits : p <= q

(* s contains sub as a contiguous substring (used for the received stream) *)
Contains(s, sub) ==
  \E p \in 0..(Len(s) - Len(sub)) : SubSeq(s, p + 1, p + Len(sub)) = sub

Count(log, name) == Cardinality({i \in DOMAIN log : log[i][1] = name})

---------------------------------------------------------------------------
(* State.                                                                  *)

VARIABLES
  fd,              \* s->fd
  sun_path,        \* s->addr.sun_path
  chunkUri,        \* s->chunkUri
  chunkLastbytes,  \* s->chunkLastbytes
  data_read,       \* s->data_read
  listen,          \* s->listen (option of the listen-capable snapshot)
  opened,          \* open returned 0 and close has not been called
  openFds,         \* descriptors of the process that are open
  calls,           \* socket-layer calls made by the last operation
  wire,            \* bytes delivered to the peer on this connection
  unlinked,        \* socket paths removed by unlink
  stream,          \* all bytes received since open
  prevLen,         \* Len(stream) before the last read
  nReads,          \* read calls since open
  nSentinel,       \* read calls since open that returned AVERROR_INVALIDDATA
  lastOp,          \* the last operation called
  lastRet,         \* its return value
  lastRecv,        \* ret of recv in the last read
  lastbytes,       \* locals of the last read with ret > 0
  lastoffset,
  descriptor,      \* the filename argument of the last open
  nonblock,        \* h->flags & AVIO_FLAG_NONBLOCK at the last write
  snapshot         \* the snapshot of the module that is built

vars == <<fd, sun_path, chunkUri, chunkLastbytes, data_read, listen, opened,
          openFds, calls, wire, unlinked, stream, prevLen, nReads, nSentinel,
          lastOp, lastRet, lastRecv, lastbytes, lastoffset, descriptor,
          nonblock, snapshot>>

readVars == <<stream, prevLen, nReads, nSentinel, lastRecv, lastbytes, lastoffset>>

(* priv_data is allocated zeroed *)
Init ==
  /\ fd = 0
  /\ sun_path = <<>>
  /\ chunkUri = <<>>
  /\ chunkLastbytes = Zeros(Cap)
  /\ data_read = 0
  /\ listen = 0
  /\ opened = FALSE
  /\ openFds = {}
  /\ calls = <<>>
  /\ wire = <<>>
  /\ unlinked = {}
  /\ stream = <<>>
  /\ prevLen = 0
  /\ nReads = 0
  /\ nSentinel = 0
  /\ lastOp = "none"
  /\ lastRet = 0
  /\ lastRecv = 0
  /\ lastbytes = 0
  /\ lastoffset = 0
  /\ descriptor = <<>>
  /\ nonblock = FALSE
  /\ snapshot \in {"sentinel", "listen"}

---------------------------------------------------------------------------
(* open of the sentinel-aware client: descriptor parsing.                  *)

(* delimiter - filename, after the scheme prefix was skipped *)
Delimiter(fn) == av_strnstr(fn, "?")

(* filename + 2 lies inside the string when it has two characters; for the *)
(* one-character string "?" it points past the terminator and what is read *)
(* there is unspecified (past).                                            *)
filenamePre(fn, past) ==
  LET src == IF Len(fn) >= 2 THEN Advance(fn, 2) ELSE past
  IN  av_strlcpy(src, SizeT(Delimiter(fn) - 2 - 1))

(* strlen(filename) - strlen(delimiter) - 1 is the size given to the copy  *)
(* of the characters after the delimiter.                                  *)
ParseChunkUri(fn) ==
  IF Delimiter(fn) = NULL THEN <<>>
  ELSE av_strlcpy(Advance(fn, Delimiter(fn) + 1),
                  SizeT(Len(fn) - (Len(fn) - Delimiter(fn)) - 1))

ParseSunPath_AlwaysSkip(fn, past) ==
  strncpy(IF Len(fn) >= 2 THEN Advance(fn, 2) ELSE <<>>, PathCopyMax)

ParseSunPath(fn, past) ==
  strncpy(IF Delimiter(fn) = NULL THEN fn ELSE filenamePre(fn, past), PathCopyMax)

---------------------------------------------------------------------------
(* open of the sentinel-aware client.  Its inputs are the descriptor and   *)
(* the results of the socket layer: sock (ff_socket), c1 and c2            *)
(* (ff_listen_connect, first call and retry), s1 and s2 (send, first call  *)
(* and retry).                                                             *)

RetryConnect_Never(c1) == FALSE

RetryConnect(c1) == c1 = AVERROR_ECONNREFUSED

RetrySend_OnError(s1) == s1 < 0

RetrySend_Always(s1) == TRUE

RetrySend(s1) == s1 <= 0

ConnectRet(c1, c2) == IF RetryConnect(c1) THEN c2 ELSE c1

ConnectCalls_AlwaysRetry(c1, c2) ==
  <<<<"ff_listen_connect", c1>>, <<"av_usleep", BackoffUsec>>,
    <<"ff_listen_connect", c2>>>>

ConnectCalls(c1, c2) ==
  <<<<"ff_listen_connect", c1>>>> \o
  (IF RetryConnect(c1)
     THEN <<<<"av_usleep", BackoffUsec>>, <<"ff_listen_connect", c2>>>>
     ELSE <<>>)

(* the request frame: chunkUri with its final NUL *)
Frame(uri) == uri \o <<NUL>>

SendCalls(uri, s1, s2) ==
  IF uri = <<>> THEN <<>>
  ELSE <<<<"send", s1>>>> \o
       (IF RetrySend(s1)
          THEN <<<<"av_usleep", BackoffUsec>>, <<"send", s2>>>>
          ELSE <<>>)

(* bytes a send that returned r has put on the connection *)
Sent(frame, r) == IF r > 0 THEN Take(frame, r) ELSE <<>>

SendWire(uri, s1, s2) ==
  IF uri = <<>> THEN <<>>
  ELSE Sent(Frame(uri), s1) \o
       (IF RetrySend(s1) THEN Sent(Frame(uri), s2) ELSE <<>>)

FailCalls_NoClose(sock) == <<>>

(* the fail label: the descriptor made by ff_socket is closed *)
FailCalls(sock) == IF sock >= 0 THEN <<<<"closesocket", sock>>>> ELSE <<>>

(* the open descriptors after the calls of log *)
RECURSIVE FdsAfter(_, _)
FdsAfter(fds, log) ==
  IF log = <<>> THEN fds
  ELSE LET c == Head(log)
           next == CASE c[1] = "ff_socket" /\ c[2] >= 0 -> fds \cup {c[2]}
                     [] c[1] = "closesocket" -> fds \ {c[2]}
                     [] c[1] = "ff_listen_bind" /\ c[2] >= 0 ->
                          (fds \ {c[3]}) \cup {c[2]}
                     [] OTHER -> fds
       IN  FdsAfter(next, Tail(log))

llhlsunix_open(filename, past, sock, c1, c2, s1, s2) ==
  LET fn   == av_strstart(filename, Scheme)
      uri  == ParseChunkUri(fn)
      ret  == ConnectRet(c1, c2)
  IN
  /\ snapshot = "sentinel"
  /\ ~opened
  /\ lastOp' = "open"
  /\ descriptor' = filename
  /\ chunkLastbytes' = Zeros(Cap)
  /\ chunkUri' = uri
  /\ sun_path' = ParseSunPath(fn, past)
  /\ stream' = <<>> /\ prevLen' = 0 /\ nReads' = 0 /\ nSentinel' = 0
  /\ lastRecv' = 0 /\ lastbytes' = 0 /\ lastoffset' = 0
  /\ UNCHANGED <<listen, unlinked, snapshot, nonblock>>
  /\ IF sock < 0
       THEN /\ calls' = <<<<"ff_socket", sock>>>>
            /\ lastRet' = sock
            /\ wire' = <<>>
            /\ UNCHANGED <<fd, data_read, opened>>
     ELSE IF ret < 0
       THEN /\ calls' = <<<<"ff_socket", sock>>>> \o ConnectCalls(c1, c2)
                          \o FailCalls(sock)
            /\ lastRet' = ret
            /\ data_read' = 0
            /\ wire' = <<>>
            /\ UNCHANGED <<fd, opened>>
     ELSE   /\ calls' = <<<<"ff_socket", sock>>>> \o ConnectCalls(c1, c2)
                          \o SendCalls(uri, s1, s2)
            /\ lastRet' = 0
            /\ data_read' = 0
            /\ fd' = sock
            /\ opened' = TRUE
            /\ wire' = SendWire(uri, s1, s2)
  /\ openFds' = FdsAfter(openFds, calls')

(* close of the sentinel-aware client *)
llhlsunix_close ==
  /\ snapshot = "sentinel"
  /\ opened
  /\ lastOp' = "close"
  /\ lastRet' = 0
  /\ calls' = <<<<"closesocket", fd>>>>
  /\ openFds' = FdsAfter(openFds, calls')
  /\ opened' = FALSE
  /\ UNCHANGED <<fd, sun_path, chunkUri, chunkLastbytes, data_read, listen,
                 wire, unlinked, descriptor, snapshot, nonblock>>
  /\ UNCHANGED readVars

---------------------------------------------------------------------------
(* open and close of the listen-capable snapshot.  lsn is the listen       *)
(* option, sock the result of ff_socket, r the result of ff_listen_bind    *)
(* (the accepted descriptor; the listening one is closed by it) or of      *)
(* ff_listen_connect.                                                      *)

UnlinkOnFail_Always(lsn, ret) == lsn # 0

UnlinkOnFail(lsn, ret) == lsn # 0 /\ ret # AVERROR_EADDRINUSE

ListenFailCalls(lsn, ret, path, sock) ==
  (IF UnlinkOnFail(lsn, ret) THEN <<<<"unlink", path>>>> ELSE <<>>)
  \o FailCalls(sock)

Unlinks(log) == {log[i][2] : i \in {j \in DOMAIN log : log[j][1] = "unlink"}}

llhlsunix_open_listen(filename, lsn, sock, r) ==
  LET fn   == av_strstart(filename, Scheme)
      path == av_strlcpy(fn, SunPathSize)
      setup == <<<<"ff_socket", sock>>,
                 IF lsn # 0 THEN <<"ff_listen_bind", r, sock>>
                 ELSE <<"ff_listen_connect", r>>>>
  IN
  /\ snapshot = "listen"
  /\ ~opened
  /\ lastOp' = "open"
  /\ descriptor' = filename
  /\ listen' = lsn
  /\ sun_path' = path
  /\ wire' = <<>>
  /\ UNCHANGED <<chunkUri, chunkLastbytes, data_read, snapshot, nonblock>>
  /\ UNCHANGED readVars
  /\ IF sock < 0
       THEN /\ calls' = <<<<"ff_socket", sock>>>>
            /\ lastRet' = sock
            /\ UNCHANGED <<fd, opened>>
     ELSE IF r < 0
       THEN /\ calls' = setup \o ListenFailCalls(lsn, r, path, sock)
            /\ lastRet' = r
            /\ UNCHANGED <<fd, opened>>
     ELSE   /\ calls' = setup
            /\ lastRet' = 0
            /\ fd' = IF lsn # 0 THEN r ELSE sock
            /\ opened' = TRUE
  /\ openFds' = FdsAfter(openFds, calls')
  /\ unlinked' = unlinked \cup Unlinks(calls')

llhlsunix_close_listen ==
  /\ snapshot = "listen"
  /\ opened
  /\ lastOp' = "close"
  /\ lastRet' = 0
  /\ calls' = (IF listen # 0 THEN <<<<"unlink", sun_path>>>> ELSE <<>>)
               \o <<<<"closesocket", fd>>>>
  /\ openFds' = FdsAfter(openFds, calls')
  /\ unlinked' = unlinked \cup Unlinks(calls')
  /\ opened' = FALSE
  /\ UNCHANGED <<fd, sun_path, chunkUri, chunkLastbytes, data_read, listen,
                 wire, descriptor, snapshot, nonblock>>
  /\ UNCHANGED readVars

---------------------------------------------------------------------------
(* read of the sentinel-aware client.  Its inputs are the result of recv:  *)
(* ret, the error code ff_neterrno() gives after it, and the ret bytes put *)
(* into the caller's buffer.                                               *)

(* receives are at most one byte longer than the window *)
MaxRecv == Cap + 1

LastBytes(ret) == FFMIN(ret, Cap)

LastOffset_Zero(ret) == 0

LastOffset(ret) == IF ret > Cap THEN ret - Cap ELSE 0

(* s->chunkLastbytes after the memcpy of a receive of ret > 0 bytes *)
UpdateWindow(win, buf, ret) ==
  memcpy(win, Advance(buf, LastOffset(ret)), LastBytes(ret))

MagicFound(win) == findBufStr(win, Magic, Cap) # NULL

ReadResult_EofFirst(win, ret) ==
  IF ret = 0 THEN AVERROR_EOF
  ELSE IF MagicFound(win) THEN AVERROR_INVALIDDATA
  ELSE ret

(* the value returned for a receive of ret >= 0 bytes that left window win *)
ReadResult(win, ret) ==
  IF MagicFound(win) THEN AVERROR_INVALIDDATA
  ELSE IF ret = 0 THEN AVERROR_EOF
  ELSE ret

ErrorResult_RawRet(ret, ret_errno) == ret

(* the value returned for a receive that failed with ret < 0 *)
ErrorResult(ret, ret_errno) ==
  IF ret_errno = AVERROR_EAGAIN THEN AVERROR_EAGAIN ELSE ret_errno

llhlsunix_read(ret, ret_errno, buf) ==
  /\ snapshot = "sentinel"
  /\ opened
  /\ nReads < MaxReads
  /\ Len(stream) + Len(buf) <= MaxStream
  /\ lastOp' = "read"
  /\ nReads' = nReads + 1
  /\ prevLen' = Len(stream)
  /\ lastRecv' = ret
  /\ calls' = <<<<"recv", ret>>, <<"ff_neterrno", ret_errno>>>>
  /\ UNCHANGED <<fd, sun_path, chunkUri, listen, opened, openFds, wire,
                 unlinked, descriptor, snapshot, nonblock>>
  /\ IF ret < 0
       THEN /\ lastRet' = ErrorResult(ret, ret_errno)
            /\ UNCHANGED <<chunkLastbytes, data_read, stream, nSentinel,
                           lastbytes, lastoffset>>
       ELSE LET win == IF ret > 0 THEN UpdateWindow(chunkLastbytes, buf, ret)
                       ELSE chunkLastbytes
                res == ReadResult(win, ret)
            IN  /\ chunkLastbytes' = win
                /\ stream' = stream \o buf
                /\ lastbytes' = IF ret > 0 THEN LastBytes(ret) ELSE lastbytes
                /\ lastoffset' = IF ret > 0 THEN LastOffset(ret) ELSE lastoffset
                /\ lastRet' = res
                /\ nSentinel' = IF res = AVERROR_INVALIDDATA THEN nSentinel + 1
                                ELSE nSentinel
                /\ data_read' = IF res > 0 THEN data_read + ret ELSE data_read

---------------------------------------------------------------------------
(* write.  Its inputs are the caller's buffer, the non-blocking flag of    *)
(* the handle, and the results of the socket layer: w (ff_network_wait_fd, *)
(* when it is called), ret (send) and the code ff_neterrno() gives after   *)
(* a failed send.                                                          *)

WaitBeforeSend_Always(nb) == TRUE

WaitBeforeSend(nb) == ~nb

WriteResult_RawRet(ret, ret_errno) == ret

WriteResult(ret, ret_errno) == IF ret < 0 THEN ret_errno ELSE ret

llhlsunix_write(buf, nb, w, ret, ret_errno) ==
  /\ opened
  /\ Len(wire) + Len(buf) <= MaxWire
  /\ lastOp' = "write"
  /\ nonblock' = nb
  /\ UNCHANGED <<fd, sun_path, chunkUri, chunkLastbytes, data_read, listen,
                 opened, openFds, unlinked, descriptor, snapshot>>
  /\ UNCHANGED readVars
  /\ IF WaitBeforeSend(nb) /\ w < 0
       THEN /\ calls' = <<<<"ff_network_wait_fd", w>>>>
            /\ lastRet' = w
            /\ UNCHANGED wire
       ELSE /\ calls' = (IF WaitBeforeSend(nb)
                           THEN <<<<"ff_network_wait_fd", w>>>> ELSE <<>>)
                        \o <<<<"send", ret>>>>
                        \o (IF ret < 0 THEN <<<<"ff_neterrno", ret_errno>>>>
                            ELSE <<>>)
            /\ lastRet' = WriteResult(ret, ret_errno)
            /\ wire' = wire \o Sent(buf, ret)

---------------------------------------------------------------------------
(* Inputs.                                                                 *)

RECURSIVE SeqsOfLen(_, _)
SeqsOfLen(S, n) ==
  IF n = 0 THEN {<<>>}
  ELSE {<<x>> \o t : x \in S, t \in SeqsOfLen(S, n - 1)}

SeqsUpTo(S, n) == UNION {SeqsOfLen(S, k) : k \in 0..n}

RecvErrnos == {AVERROR_EAGAIN, AVERROR_ECONNRESET}

SocketResults == {NewFd, AVERROR_EMFILE}

ConnectResults == {0, AVERROR_ECONNREFUSED, AVERROR_ENOENT}

SendResults(uri) == {-1} \cup 0..(Len(uri) + 1)

(* a descriptor the reads are run behind: "llhls:///s?c" *)
PlainDescriptor == Scheme \o <<"/", "/", "/", "s">>

ReadStep ==
  \/ \E e \in RecvErrnos : llhlsunix_read(-1, e, <<>>)
  \/ llhlsunix_read(0, 0, <<>>)
  \/ \E buf \in SeqsUpTo(Bytes, MaxRecv) \ {<<>>} : llhlsunix_read(Len(buf), 0, buf)

OpenConnected ==
  llhlsunix_open(PlainDescriptor, <<>>, NewFd, 0, 0, 0, 0)

CloseStep == llhlsunix_close

NextRead == OpenConnected \/ ReadStep \/ CloseStep

SpecRead == Init /\ [][NextRead]_vars

WaitResults == {0, AVERROR_ETIMEDOUT}

SendErrnos == {AVERROR_EAGAIN, AVERROR_EPIPE}

WriteStep ==
  \E buf \in SeqsUpTo(Bytes, MaxWrite) \ {<<>>}, nb \in BOOLEAN :
    \E w \in (IF WaitBeforeSend(nb) THEN WaitResults ELSE {0}) :
      \/ \E n \in 0..Len(buf) : llhlsunix_write(buf, nb, w, n, 0)
      \/ \E e \in SendErrnos : llhlsunix_write(buf, nb, w, -1, e)

NextWrite == OpenConnected \/ WriteStep \/ CloseStep

SpecWrite == Init /\ [][NextWrite]_vars

(* descriptors: with or without the scheme prefix, then any string over    *)
(* PathChars of at most MaxTail characters                                 *)
PathChars == {"/", "s", "?"}

(* "llhls:/tmp/sock?chunk42" *)
ScenarioDescriptor ==
  Scheme \o <<"/", "t", "m", "p", "/", "s", "o", "c", "k", "?",
              "c", "h", "u", "n", "k", "4", "2">>

(* a descriptor whose path is longer than the strncpy into sun_path copies *)
LongDescriptor == Scheme \o [i \in 1..(PathCopyMax + 5) |-> "s"]

Descriptors ==
  {pfx \o t : pfx \in {<<>>, Scheme}, t \in SeqsUpTo(PathChars, MaxTail)}
  \cup {ScenarioDescriptor, LongDescriptor}

PastBytes == {<<>>, <<"s">>}

BindResults == {AcceptedFd, AVERROR_EADDRINUSE, AVERROR_EACCES}

(* In this specification a handle is opened once, as the host does.  The   *)
(* results of calls that are not made are not enumerated.                  *)
Fresh == lastOp = "none"

OpenStep ==
  /\ Fresh
  /\ \E filename \in Descriptors, sock \in SocketResults, c1 \in ConnectResults :
       LET fn  == av_strstart(filename, Scheme)
           uri == ParseChunkUri(fn)
       IN  \E past \in (IF fn = <<"?">> THEN PastBytes ELSE {<<>>}),
              c2 \in (IF sock >= 0 /\ RetryConnect(c1) THEN ConnectResults ELSE {0}),
              s1 \in (IF sock >= 0 /\ uri # <<>> THEN SendResults(uri) ELSE {0}) :
             \E s2 \in (IF RetrySend(s1) /\ sock >= 0 /\ uri # <<>>
                         THEN SendResults(uri) ELSE {0}) :
               llhlsunix_open(filename, past, sock, c1, c2, s1, s2)

ListenOpenStep ==
  /\ Fresh
  /\ \E filename \in Descriptors, sock \in SocketResults :
       \/ \E r \in BindResults : llhlsunix_open_listen(filename, 1, sock, r)
       \/ \E r \in ConnectResults : llhlsunix_open_listen(filename, 0, sock, r)

ListenCloseStep == llhlsunix_close_listen

NextOpen == OpenStep \/ CloseStep \/ ListenOpenStep \/ ListenCloseStep

SpecOpen == Init /\ [][NextOpen]_vars

---------------------------------------------------------------------------
(* Properties of read, checked under SpecRead.                             *)

StripNul(w) == SelectSeq(w, LAMBDA c : c # NUL)

LastN(s, n) == SubSeq(s, Max(1, Len(s) - n + 1), Len(s))

(* the stream holds the sentinel at offset p, the last read delivered its  *)
(* last byte and the read before delivered at least its first byte         *)
SplitAt(p) ==
  /\ SubSeq(stream, p + 1, p + Len(Magic)) = Magic
  /\ p < prevLen
  /\ prevLen < p + Len(Magic)

(* C1: when the stream is delivered in two consecutive receives whose      *)
(* split point falls inside the sentinel, the reads report the sentinel    *)
(* error exactly once, no later than the read that delivers its last byte. *)
C1_SplitSentinelReportedOnce ==
  (/\ lastOp = "read"
   /\ nReads = 2
   /\ lastRecv > 0
   /\ \E p \in 0..(Len(stream) - Len(Magic)) : SplitAt(p))
  => nSentinel = 1

(* C2: when the received stream does not contain the sentinel, whatever    *)
(* its chunking into receives, no read returns the sentinel error.         *)
C2_NoSentinelNoError ==
  nSentinel > 0 => Contains(stream, Magic)

(* C3: a read returns end-of-stream if and only if its receive returned    *)
(* zero bytes and the window then holds no sentinel; a zero-length receive *)
(* over a window holding the sentinel returns the sentinel error.          *)
C3_EndOfStreamIff ==
  lastOp = "read" =>
    /\ lastRet = AVERROR_EOF
         <=> (lastRecv = 0 /\ ~Contains(chunkLastbytes, Magic))
    /\ (lastRecv = 0 /\ Contains(chunkLastbytes, Magic))
         => lastRet = AVERROR_INVALIDDATA

C3_Witness ==
  /\ lastOp = "read"
  /\ lastRecv = 0
  /\ lastRet = AVERROR_EOF
  /\ Len(stream) > 0

(* C4: after a read that received bytes, the window holds, in stream       *)
(* order, the last Cap bytes of the stream received so far.                *)
C4_WindowIsStreamSuffix ==
  (lastOp = "read" /\ lastRecv > 0)
  => StripNul(chunkLastbytes) = LastN(stream, Cap)

(* C5: the window never holds more than Cap bytes, and a read that         *)
(* received n > 0 bytes copies min(n, Cap) bytes taken from the end of     *)
(* the n bytes into the window.                                            *)
C5_WindowBounded ==
  /\ Len(chunkLastbytes) <= Cap
  /\ lastRecv > 0 =>
       /\ lastbytes = Min(lastRecv, Cap)
       /\ lastoffset >= 0
       /\ lastoffset + lastbytes = lastRecv

C5_Witness ==
  /\ lastOp = "read"
  /\ lastRecv > Cap
  /\ Len(chunkLastbytes) = Cap

---------------------------------------------------------------------------
(* Properties of open, checked under SpecOpen.                             *)

Results(log, name) ==
  LET sel == SelectSeq(log, LAMBDA c : c[1] = name)
  IN  [i \in DOMAIN sel |-> sel[i][2]]

(* the calls of log up to its last connect attempt *)
ConnectPhase(log) ==
  LET at == {i \in DOMAIN log : log[i][1] = "ff_listen_connect"}
  IN  IF at = {} THEN <<>>
      ELSE SubSeq(log, 1, CHOOSE i \in at : \A j \in at : j <= i)

SentinelOpen == snapshot = "sentinel" /\ lastOp = "open"

(* C6: when the first connect attempt of open fails with the transient     *)
(* connection-refused code, open makes exactly two connect attempts with   *)
(* exactly one backoff between them; it succeeds when the second attempt   *)
(* succeeds and fails with the second attempt's error otherwise.           *)
C6_ConnectRetryOnce ==
  (/\ SentinelOpen
   /\ Results(calls, "ff_listen_connect") # <<>>
   /\ Results(calls, "ff_listen_connect")[1] = AVERROR_ECONNREFUSED)
  => LET conn == Results(calls, "ff_listen_connect")
     IN  /\ Len(conn) = 2
         /\ Count(ConnectPhase(calls), "av_usleep") = 1
         /\ ConnectPhase(calls)[3] = <<"av_usleep", BackoffUsec>>
         /\ conn[2] >= 0 => (lastRet = 0 /\ opened /\ fd \in openFds)
         /\ conn[2] < 0 => (lastRet = conn[2] /\ ~opened
                             /\ Count(calls, "send") = 0)

C6_Witness ==
  /\ SentinelOpen
  /\ lastRet = 0
  /\ opened
  /\ Results(calls, "ff_listen_connect") = <<AVERROR_ECONNREFUSED, 0>>

(* C7: for a descriptor with a "?" and a non-empty path before it, the     *)
(* socket path is every character                                          *)
(* between the two-character skip and the first "?", and the resource      *)
(* identifier every character after it, so that path + "?" + identifier    *)
(* is the descriptor after the skip.                                       *)
C7_ParseReconstructs ==
  LET fn == av_strstart(descriptor, Scheme)
      d  == Delimiter(fn)
  IN  (SentinelOpen /\ d >= 3)
      => /\ sun_path = SubSeq(fn, 3, d)
         /\ chunkUri = Advance(fn, d + 1)
         /\ sun_path \o <<"?">> \o chunkUri = Advance(fn, 2)

(* C8 as stated: every successful open with a non-empty resource           *)
(* identifier has put exactly the frame, identifier and NUL, on the        *)
(* connection, and nothing when the identifier is empty.                   *)
C8_ExactlyOneFrame ==
  (SentinelOpen /\ lastRet = 0)
  => wire = (IF chunkUri # <<>> THEN Frame(chunkUri) ELSE <<>>)

(* C8 amended: a successful open puts at most one frame on the connection: *)
(* what it has transmitted is a prefix of identifier and NUL, the whole    *)
(* frame exactly when a send reported the frame's length, nothing when     *)
(* every send reported zero or less or the identifier is empty; every send *)
(* comes after the last connect attempt.                                   *)
C8_AtMostOneFrame ==
  (SentinelOpen /\ lastRet = 0)
  => LET sends == Results(calls, "send")
         full  == Len(chunkUri) + 1
     IN  /\ chunkUri = <<>> => (sends = <<>> /\ wire = <<>>)
         /\ chunkUri # <<>> =>
              /\ Len(sends) >= 1
              /\ IsPrefix(wire, Frame(chunkUri))
              /\ wire = Frame(chunkUri) <=> \E i \in DOMAIN sends : sends[i] = full
              /\ (\A i \in DOMAIN sends : sends[i] <= 0) => wire = <<>>
         /\ Count(ConnectPhase(calls), "send") = 0

C8_Witness ==
  /\ SentinelOpen
  /\ lastRet = 0
  /\ chunkUri # <<>>
  /\ Len(Results(calls, "send")) = 2
  /\ wire = Frame(chunkUri)

(* C9: when the first send of the request frame reports zero or less, the  *)
(* send is repeated exactly once after one backoff; whatever the sends     *)
(* report, open returns success with its descriptor open, and no third     *)
(* send is made.                                                           *)
C9_SendRetryNonFatal ==
  (SentinelOpen /\ Count(calls, "send") > 0)
  => LET sends == Results(calls, "send")
         n     == Len(calls)
     IN  /\ lastRet = 0
         /\ opened
         /\ fd \in openFds
         /\ Len(sends) <= 2
         /\ sends[1] <= 0 <=> Len(sends) = 2
         /\ sends[1] <= 0 =>
              /\ calls[n - 2] = <<"send", sends[1]>>
              /\ calls[n - 1] = <<"av_usleep", BackoffUsec>>
              /\ calls[n] = <<"send", sends[2]>>

C9_Witness ==
  /\ SentinelOpen
  /\ lastRet = 0
  /\ opened
  /\ Len(Results(calls, "send")) = 2
  /\ \A i \in 1..2 : Results(calls, "send")[i] <= 0

(* C10: an open that returns a failure leaves no descriptor open and the   *)
(* handle not opened: nothing is closed when the socket could not be       *)
(* created, and the created descriptor is closed exactly once, as the last *)
(* call, when connect or bind/listen failed.                               *)
C10_FailedOpenNoDescriptor ==
  (lastOp = "open" /\ lastRet < 0)
  => /\ openFds = {}
     /\ ~opened
     /\ calls[1][2] < 0 => Count(calls, "closesocket") = 0
     /\ calls[1][2] >= 0 =>
          /\ Count(calls, "closesocket") = 1
          /\ calls[Len(calls)] = <<"closesocket", calls[1][2]>>

C10_Witness ==
  /\ lastOp = "open"
  /\ lastRet < 0
  /\ Count(calls, "closesocket") = 1
  /\ Count(calls, "ff_listen_connect") = 2

---------------------------------------------------------------------------
(* Further properties of read, checked under SpecRead.                     *)

(* a return value of read that is a descriptor-level failure *)
HardError(r) ==
  r < 0 /\ r \notin {AVERROR_EAGAIN, AVERROR_EOF, AVERROR_INVALIDDATA}

DataOrEof(r) == r > 0 \/ r = AVERROR_EOF

(* C11: once a read has returned the sentinel error or a hard error, no    *)
(* later read on the handle returns data or end-of-stream: stated for      *)
(* every read after a sentinel error and for the read that follows a hard  *)
(* error.                                                                  *)
C11_FailedStaysFailed ==
  [][(/\ lastOp' = "read"
      /\ \/ nSentinel > 0
         \/ (lastOp = "read" /\ HardError(lastRet)))
     => ~DataOrEof(lastRet')]_vars

(* C15: a read whose receive reports the would-block condition returns     *)
(* the would-block code and changes neither the window, the byte counter,  *)
(* the descriptor nor the opened handle.                                   *)
C15_WouldBlockChangesNothing ==
  [][(/\ lastOp' = "read"
      /\ calls'[1][2] < 0
      /\ calls'[2][2] = AVERROR_EAGAIN)
     => /\ lastRet' = AVERROR_EAGAIN
        /\ chunkLastbytes' = chunkLastbytes
        /\ data_read' = data_read
        /\ stream' = stream
        /\ nSentinel' = nSentinel
        /\ fd' = fd
        /\ opened' /\ opened]_vars

C15_Witness ==
  /\ lastOp = "read"
  /\ lastRecv < 0
  /\ lastRet = AVERROR_EAGAIN
  /\ StripNul(chunkLastbytes) # <<>>
  /\ data_read > 0

(* C16: a read that received n > 0 bytes and whose window then holds the   *)
(* sentinel returns the sentinel error, not n; so does a read whose single *)
(* receive of at most Cap bytes contains the whole sentinel.               *)
C16_SentinelBeforeData ==
  (lastOp = "read" /\ lastRecv > 0)
  => /\ Contains(chunkLastbytes, Magic) => lastRet = AVERROR_INVALIDDATA
     /\ (/\ lastRecv <= Cap
         /\ Contains(SubSeq(stream, prevLen + 1, Len(stream)), Magic))
        => lastRet = AVERROR_INVALIDDATA

C16_Witness ==
  /\ lastOp = "read"
  /\ nReads = 1
  /\ lastRecv = Cap
  /\ lastRet = AVERROR_INVALIDDATA
  /\ findBufStr(chunkLastbytes, Magic, Cap) = Cap - Len(Magic)

(* C18: a read that received n bytes, 0 < n < capacity, puts them at       *)
(* window positions [0, n) and leaves positions [n, capacity) as they      *)
(* were, so bytes of earlier reads stay where they are; open sets the      *)
(* whole window to zero bytes.                                             *)
C18_PartialOverwriteKeepsRest ==
  [][/\ (lastOp' = "read" /\ lastRecv' > 0 /\ lastRecv' < Cap)
          => /\ Len(chunkLastbytes') = Cap
             /\ \A i \in 1..Cap :
                  chunkLastbytes'[i] =
                    IF i <= lastRecv' THEN stream'[prevLen' + i]
                    ELSE chunkLastbytes[i]
     /\ (lastOp' = "open" /\ snapshot' = "sentinel")
          => chunkLastbytes' = Zeros(Cap)]_vars

C18_Witness ==
  /\ lastOp = "read"
  /\ nReads >= 2
  /\ lastRecv > 0
  /\ lastRecv < Cap
  /\ \E i \in (lastRecv + 1)..Cap :
       /\ chunkLastbytes[i] # NUL
       /\ \E j \in 1..prevLen : stream[j] = chunkLastbytes[i]

(* C20: a receive of zero bytes leaves the window as it was, and after a   *)
(* read that returned the sentinel error a read whose receive returns zero *)
(* bytes returns the sentinel error again, never end-of-stream; a window   *)
(* that holds the marker stops holding it only through open or through a   *)
(* receive of n > 0 bytes that reaches the marker's first byte or beyond.  *)
C20_ZeroReceiveKeepsVerdict ==
  [][/\ (lastOp' = "read" /\ lastRecv' = 0)
          => /\ chunkLastbytes' = chunkLastbytes
             /\ (lastOp = "read" /\ lastRet = AVERROR_INVALIDDATA)
                  => lastRet' = AVERROR_INVALIDDATA
     /\ (MagicFound(chunkLastbytes) /\ ~MagicFound(chunkLastbytes'))
          => \/ lastOp' = "open"
             \/ /\ lastOp' = "read"
                /\ lastRecv' > 0
                /\ lastRecv' > findBufStr(chunkLastbytes, Magic, Cap)]_vars

C20_Witness ==
  /\ lastOp = "read"
  /\ lastRecv = 0
  /\ lastRet = AVERROR_INVALIDDATA
  /\ nSentinel >= 2
  /\ Contains(chunkLastbytes, Magic)

---------------------------------------------------------------------------
(* Properties of write, checked under SpecWrite.                           *)

(* C17: write waits for the descriptor to become writable exactly when the *)
(* handle is not non-blocking; when the wait fails it returns the wait's   *)
(* error without sending; otherwise it sends exactly once and returns the  *)
(* byte count, or the error code when send reported a negative result.     *)
C17_WriteWaitsThenSendsOnce ==
  lastOp = "write" =>
    LET waits == Results(calls, "ff_network_wait_fd")
        sends == Results(calls, "send")
    IN  /\ Len(waits) = (IF nonblock THEN 0 ELSE 1)
        /\ (waits # <<>> /\ waits[1] < 0)
             => (lastRet = waits[1] /\ sends = <<>>)
        /\ (waits = <<>> \/ waits[1] >= 0)
             => /\ Len(sends) = 1
                /\ sends[1] >= 0 => lastRet = sends[1]
                /\ sends[1] < 0 =>
                     (lastRet < 0 /\ lastRet = Results(calls, "ff_neterrno")[1])

C17_Witness ==
  /\ lastOp = "write"
  /\ ~nonblock
  /\ Results(calls, "ff_network_wait_fd") = <<0>>
  /\ Results(calls, "send") = <<-1>>
  /\ lastRet = AVERROR_EPIPE
  /\ wire # <<>>

---------------------------------------------------------------------------
(* Further properties of open, checked under SpecOpen.                     *)

(* the socket path computed from the descriptor, before it is copied into  *)
(* sun_path                                                                *)
ComputedPath(fn) ==
  IF Delimiter(fn) = NULL THEN fn
  ELSE IF Len(fn) >= 2 THEN filenamePre(fn, <<>>)
  ELSE sun_path

(* C12: when the computed socket path is empty or longer than the path     *)
(* capacity, open fails without creating or connecting a socket.           *)
C12_AddressErrorOnBadPath ==
  LET fn == av_strstart(descriptor, Scheme)
  IN  (/\ SentinelOpen
       /\ \/ ComputedPath(fn) = <<>>
          \/ Len(ComputedPath(fn)) > PathCopyMax)
      => /\ lastRet < 0
         /\ Count(calls, "ff_socket") = 0
         /\ Count(calls, "ff_listen_connect") = 0

HasUnlink(log, path) ==
  \E i \in DOMAIN log : log[i][1] = "unlink" /\ log[i][2] = path

HasClose(log, d) ==
  \E i \in DOMAIN log : log[i][1] = "closesocket" /\ log[i][2] = d

(* C14: in listen mode an open that fails in bind/listen unlinks the       *)
(* socket path unless the error is "address in use", and closes the        *)
(* descriptor in both cases; close after a successful listen-mode open     *)
(* unlinks the path and closes the descriptor; without listen mode neither *)
(* a failed open nor close unlinks anything.                               *)
C14_UnlinkPolicy ==
  /\ (snapshot = "listen" /\ listen # 0 /\ lastOp = "open" /\ lastRet < 0
      /\ calls[1][2] >= 0)
     => /\ lastRet = AVERROR_EADDRINUSE => Count(calls, "unlink") = 0
        /\ lastRet # AVERROR_EADDRINUSE =>
             (Count(calls, "unlink") = 1 /\ HasUnlink(calls, sun_path))
        /\ Count(calls, "closesocket") = 1
        /\ HasClose(calls, calls[1][2])
        /\ openFds = {}
  /\ (snapshot = "listen" /\ listen # 0 /\ lastOp = "close")
     => /\ Count(calls, "unlink") = 1
        /\ HasUnlink(calls, sun_path)
        /\ sun_path \in unlinked
        /\ HasClose(calls, fd)
        /\ openFds = {}
  /\ listen = 0 => (Count(calls, "unlink") = 0 /\ unlinked = {})

C14_Witness ==
  /\ snapshot = "listen"
  /\ listen # 0
  /\ lastOp = "open"
  /\ lastRet = AVERROR_EADDRINUSE
  /\ sun_path # <<>>
  /\ unlinked = {}

(* C19: one open makes at most two connect attempts and at most two sends  *)
(* of the request frame; a second connect attempt is made only after a     *)
(* first that returned the connection-refused code; a first attempt that   *)
(* failed with any other error makes open return that error with no        *)
(* backoff and no retry; and no send follows a failed connect.             *)
C19_BoundedAttempts ==
  SentinelOpen
  => LET conn == Results(calls, "ff_listen_connect")
     IN  /\ Len(conn) <= 2
         /\ Count(calls, "send") <= 2
         /\ Len(conn) = 2 => conn[1] = AVERROR_ECONNREFUSED
         /\ (conn # <<>> /\ conn[1] < 0 /\ conn[1] # AVERROR_ECONNREFUSED)
              => /\ lastRet = conn[1]
                 /\ ~opened
                 /\ Len(conn) = 1
                 /\ Count(calls, "av_usleep") = 0
         /\ (conn # <<>> /\ conn[Len(conn)] < 0)
              => (lastRet < 0 /\ Count(calls, "send") = 0)
         /\ conn = <<>> => Count(calls, "send") = 0

C19_Witness ==
  /\ SentinelOpen
  /\ chunkUri # <<>>
  /\ Results(calls, "ff_listen_connect") = <<AVERROR_ENOENT>>
  /\ lastRet = AVERROR_ENOENT

====
